---- MODULE Spec2Model ----
(***************************************************************************)
(* Model of the match pipeline of league_api.py: get_match_data ->         *)
(* extract_player_stats -> prepare_for_model / add_rank_predictions ->     *)
(* prepare_prediction_summary, with the process-wide classifier handle.    *)
(*                                                                         *)
(* Python values are modelled as follows.                                  *)
(*   None            [kind |-> "None"]                                     *)
(*   raised error    [kind |-> "raise", exc |-> <exception class>]         *)
(*   DataFrame       [kind |-> "df", columns |-> <<names>>, rows |-> <<r>>]*)
(*   dict            a record                                              *)
(*   float           an exact fraction [num |-> n, den |-> d], d > 0, in   *)
(*                   lowest terms                                          *)
(*   NaN in an integer-coded column: the number NaN (-1, no code is < 0)   *)
(*   str (names)     a sequence of one-character strings                   *)
(***************************************************************************)
EXTENDS Integers, Sequences, FiniteSets, TLC

VARIABLES MODEL, loads, op, args, result, calls, pc, loaded, returned

vars == <<MODEL, loads, op, args, result, calls, pc, loaded, returned>>

-----------------------------------------------------------------------------
(* Bounds of the model *)

\* longest participant list of a fetched match record
MaxParticipants == 3

\* longest table handed directly to prepare_prediction_summary
MaxRows == 3

\* largest class index a table handed directly to prepare_prediction_summary holds
MaxRankId == 12
\* the largest kill, death or assist count of the score lines enumerated
MaxScore == 3

-----------------------------------------------------------------------------
(* Python values *)

None == [kind |-> "None"]

Raise(e) == [kind |-> "raise", exc |-> e]

IsRaise(v) == "kind" \in DOMAIN v /\ v.kind = "raise"

IsDf(v) == "kind" \in DOMAIN v /\ v.kind = "df"

DataFrame(cols, rws) == [kind |-> "df", columns |-> cols, rows |-> rws]

\* DataFrame.empty: no rows or no columns
Empty(df) == Len(df.rows) = 0 \/ Len(df.columns) = 0

\* truth value of a match_data value: None and the empty dict are falsy
Truthy(v) == v # None /\ DOMAIN v # {}

Max(a, b) == IF a >= b THEN a ELSE b

Min(a, b) == IF a <= b THEN a ELSE b

Range(s) == {s[i] : i \in DOMAIN s}

RECURSIVE Gcd(_, _)
Gcd(a, b) == IF b = 0 THEN a ELSE Gcd(b, a % b)

\* the float a / b of two non-negative integers, b > 0
Frac(a, b) == LET g == Gcd(a, b) IN [num |-> a \div g, den |-> b \div g]

\* true division of an integer by a float
DivByFrac(a, f) == Frac(a * f.den, f.num)

\* float < integer
FracLess(f, n) == f.num < n * f.den

\* dict.get(key, default)
Get(d, key, default) == IF key \in DOMAIN d THEN d[key] ELSE default

\* str.lower() on the alphabet of the modelled names
LowerChar(c) == CASE c = "A" -> "a" [] c = "B" -> "b" [] c = "Z" -> "z" [] OTHER -> c

Lower(s) == [i \in DOMAIN s |-> LowerChar(s[i])]

\* the missing value pandas' map() leaves for a key absent from the dict
NaN == -1

-----------------------------------------------------------------------------
(* Module constants of league_api.py *)

RANKS == <<"Unranked", "Iron", "Bronze", "Silver", "Gold", "Platinum",
           "Emerald", "Diamond", "Master", "Grandmaster", "Challenger">>

LANE_ENCODING == [BOTTOM |-> 0, SUPPORT |-> 1, NONE |-> 2, JUNGLE |-> 3,
                  TOP |-> 4, MIDDLE |-> 5, UTILITY |-> 1]

ROLE_ENCODING == [SUPPORT |-> 0, ADC |-> 1, NONE |-> 2, JUNGLE |-> 3, TOP |-> 4,
                  MIDDLE |-> 5, SOLO |-> 4, DUO |-> 1, CARRY |-> 1]

GAME_PHASE_ENCODING == [Mid |-> 0, Late |-> 1, Early |-> 2]

model_columns ==
    <<"MinionsKilled", "DmgDealt", "DmgTaken", "TurretDmgDealt", "TotalGold", "Win",
      "item1", "item2", "item3", "item4", "item5", "item6",
      "kills", "deaths", "assists",
      "PrimaryKeyStone", "PrimarySlot1", "PrimarySlot2", "PrimarySlot3",
      "SecondarySlot1", "SecondarySlot2",
      "SummonerSpell1", "SummonerSpell2",
      "CurrentMasteryPoints", "DragonKills", "BaronKills", "visionScore",
      "SummonerMatchId", "ChampionFk", "SummonerFk", "GameDuration",
      "KDA", "GameDurationMin", "GoldPerMin", "CSPerMin", "DmgPerMin", "VisionPerMin",
      "DmgPerGold", "DmgEfficiency", "ItemCount", "ObjectiveParticipation",
      "ChampionId", "Lane", "Role", "GamePhase">>

\* the keys of the stats dict, in insertion order: the columns of the extracted table
stats_columns == model_columns \o <<"summonerName", "championName">>

-----------------------------------------------------------------------------
(* extract_player_stats *)

\* Series.map(table): the code of a value, NaN for a value the table lacks
MapEncoding(table, v) == IF v \in DOMAIN table THEN table[v] ELSE NaN

\* fillna left out: the missing value stays
FillNa_Missing(v, default) == v

\* Series.fillna(default)
FillNa(v, default) == IF v = NaN THEN default ELSE v

EncodeLane(v) == FillNa(MapEncoding(LANE_ENCODING, v), 5)

\* the Role column filled with the default of the Lane column
EncodeRole_LaneDefault(v) == FillNa(MapEncoding(ROLE_ENCODING, v), 5)

EncodeRole(v) == FillNa(MapEncoding(ROLE_ENCODING, v), 1)

EncodeGamePhase(v) == FillNa(MapEncoding(GAME_PHASE_ENCODING, v), 0)

\* GamePhase with the boundaries closed on the left: <= for <
GamePhase_Closed(game_duration_min) ==
    IF game_duration_min.num <= 20 * game_duration_min.den THEN "Early"
    ELSE IF game_duration_min.num <= 35 * game_duration_min.den THEN "Mid"
    ELSE "Late"

\* 'Early' if game_duration_min < 20 else ('Mid' if game_duration_min < 35 else 'Late')
GamePhase(game_duration_min) ==
    IF FracLess(game_duration_min, 20) THEN "Early"
    ELSE IF FracLess(game_duration_min, 35) THEN "Mid"
    ELSE "Late"

\* 1 if participant['win'] else 0
WinFlag(participant) == IF participant.win THEN 1 ELSE 0

\* (kills + assists) / max(deaths, 1)
KDA_DeathsPlusOne(participant) ==
    Frac(participant.kills + participant.assists, participant.deaths + 1)

KDA(participant) ==
    Frac(participant.kills + participant.assists, Max(participant.deaths, 1))

\* sum([1 for i in range(6) if participant[f'item{i}'] != 0])
ItemCount(participant) ==
    LET items == <<participant.item0, participant.item1, participant.item2,
                   participant.item3, participant.item4, participant.item5>>
    IN Cardinality({i \in 1..6 : items[i] # 0})

\* the username test of the loop: True when the participant is skipped
Skipped(participant, username) ==
    /\ username # None
    /\ username.s # <<>>
    /\ Lower(participant.riotIdGameName) # Lower(username.s)

\* the stats dict of one participant (Lane, Role and GamePhase still strings)
Stats(participant, game_duration_seconds) ==
    LET game_duration_min == Frac(game_duration_seconds, 60)
        styles == participant.perks.styles
    IN [MinionsKilled |-> participant.totalMinionsKilled,
        DmgDealt |-> participant.totalDamageDealtToChampions,
        DmgTaken |-> participant.totalDamageTaken,
        TurretDmgDealt |-> participant.damageDealtToTurrets,
        TotalGold |-> participant.goldEarned,
        Win |-> WinFlag(participant),
        item1 |-> participant.item0,
        item2 |-> participant.item1,
        item3 |-> participant.item2,
        item4 |-> participant.item3,
        item5 |-> participant.item4,
        item6 |-> participant.item5,
        kills |-> participant.kills,
        deaths |-> participant.deaths,
        assists |-> participant.assists,
        PrimaryKeyStone |-> styles[1].selections[1].perk,
        PrimarySlot1 |-> styles[1].selections[2].perk,
        PrimarySlot2 |-> styles[1].selections[3].perk,
        PrimarySlot3 |-> styles[1].selections[4].perk,
        SecondarySlot1 |-> styles[2].selections[1].perk,
        SecondarySlot2 |-> styles[2].selections[2].perk,
        SummonerSpell1 |-> participant.summoner1Id,
        SummonerSpell2 |-> participant.summoner2Id,
        CurrentMasteryPoints |-> Get(participant, "championPoints", 0),
        DragonKills |-> Get(participant, "dragonKills", 0),
        BaronKills |-> Get(participant, "baronKills", 0),
        visionScore |-> participant.visionScore,
        SummonerMatchId |-> 0,
        ChampionFk |-> participant.championId,
        SummonerFk |-> 0,
        GameDuration |-> game_duration_seconds,
        KDA |-> KDA(participant),
        GameDurationMin |-> game_duration_min,
        GoldPerMin |-> DivByFrac(participant.goldEarned, game_duration_min),
        CSPerMin |-> DivByFrac(participant.totalMinionsKilled, game_duration_min),
        DmgPerMin |-> DivByFrac(participant.totalDamageDealtToChampions, game_duration_min),
        VisionPerMin |-> DivByFrac(participant.visionScore, game_duration_min),
        DmgPerGold |-> Frac(participant.totalDamageDealtToChampions,
                            Max(participant.goldEarned, 1)),
        DmgEfficiency |-> Frac(participant.totalDamageDealtToChampions,
                               Max(participant.totalDamageTaken, 1)),
        ItemCount |-> ItemCount(participant),
        ObjectiveParticipation |-> Get(participant, "dragonKills", 0)
                                     + Get(participant, "baronKills", 0),
        ChampionId |-> participant.championId,
        Lane |-> participant.lane,
        Role |-> participant.role,
        GamePhase |-> GamePhase(game_duration_min),
        summonerName |-> participant.riotIdGameName,
        championName |-> participant.championName]

\* the for loop: player_stats_list after participants[i..]
RECURSIVE StatsLoop(_, _, _, _, _)
StatsLoop(participants, game_duration_seconds, username, i, player_stats_list) ==
    IF i > Len(participants) THEN player_stats_list
    ELSE IF Skipped(participants[i], username)
         THEN StatsLoop(participants, game_duration_seconds, username, i + 1,
                        player_stats_list)
         ELSE StatsLoop(participants, game_duration_seconds, username, i + 1,
                        Append(player_stats_list,
                               Stats(participants[i], game_duration_seconds)))

\* pd.DataFrame(list of dicts): the columns are the dicts' keys, none for an empty list
FrameOf(player_stats_list) ==
    DataFrame(IF player_stats_list = <<>> THEN <<>> ELSE stats_columns,
              player_stats_list)

\* the three map(...).fillna(...) assignments on the rows of the table
EncodeRow(row) ==
    [row EXCEPT !.Lane = EncodeLane(row.Lane),
                !.Role = EncodeRole(row.Role),
                !.GamePhase = EncodeGamePhase(row.GamePhase)]

\* the rest of extract_player_stats once df = pd.DataFrame(player_stats_list):
\* df['Lane'] raises KeyError on a table without that column
EncodeFrame(df) ==
    IF "Lane" \notin Range(df.columns) THEN Raise("KeyError")
    ELSE DataFrame(df.columns, [i \in DOMAIN df.rows |-> EncodeRow(df.rows[i])])

extract_player_stats(match_data, username) ==
    IF "info" \notin DOMAIN match_data THEN Raise("KeyError")
    ELSE LET participants == match_data.info.participants
             game_duration_seconds == match_data.info.gameDuration
         IN IF /\ game_duration_seconds = 0
               /\ \E i \in DOMAIN participants : ~Skipped(participants[i], username)
            THEN Raise("ZeroDivisionError")
            ELSE EncodeFrame(FrameOf(StatsLoop(participants, game_duration_seconds,
                                               username, 1, <<>>)))

-----------------------------------------------------------------------------
(* get_match_data, prepare_for_model, load_model, add_rank_predictions *)

\* the outcome of a call: its return value (or the exception it raised), the
\* classifier handle after it, the number of times it read the artifact from
\* disk, and the functions it invoked, in order
Outcome(ret, M, n, cs) == [ret |-> ret, MODEL |-> M, loads |-> n, calls |-> cs]

\* get_match_data without the status test
get_match_data_AnyStatus(response) == response.json

get_match_data(response) ==
    IF response.status_code = 200 THEN response.json ELSE None

\* df[names]: the named columns in the order of names; KeyError when one is missing
SelectColumns(df, names) ==
    IF \E i \in DOMAIN names : names[i] \notin Range(df.columns) THEN Raise("KeyError")
    ELSE DataFrame(names,
                   [i \in DOMAIN df.rows |-> [c \in Range(names) |-> df.rows[i][c]]])

\* prepare_for_model keeping the model columns in the order the table has them
prepare_for_model_InputOrder(df) ==
    SelectColumns(df, SelectSeq(df.columns, LAMBDA c : c \in Range(model_columns)))

prepare_for_model(df) == SelectColumns(df, model_columns)

\* load_model without the test of line 21: every call reads the artifact
load_model_Reload(M, disk) == [MODEL |-> disk, ret |-> disk, loads |-> 1]

\* load_model with the global MODEL = M and the artifact disk in
\* models/vanilla_tree.sav: the new MODEL, the handle returned and the number of
\* reads of the artifact
load_model(M, disk) ==
    IF M = None THEN [MODEL |-> disk, ret |-> disk, loads |-> 1]
    ELSE [MODEL |-> M, ret |-> M, loads |-> 0]

\* model.predict(model_features): the classifier reads each row as a positional
\* vector, in the column order of the table it is given, and answers one class
\* index per row, in row order
Predict(model, model_features) ==
    [i \in DOMAIN model_features.rows |->
        LET x == model_features.rows[i][model_features.columns[model.feature]]
        IN IF x <= model.threshold THEN model.left ELSE model.right]

\* RankLabel reading the list one place too far
RankLabel_OneBased(pred) == RANKS[Min(pred + 2, Len(RANKS))]

\* RANKS[int(pred)]: a list index below 0 counts from the end
RankLabel(pred) ==
    IF pred >= 0 THEN RANKS[pred + 1] ELSE RANKS[pred + Len(RANKS) + 1]

\* players_df.copy() with the two prediction columns appended
WithPredictions(players_df, predictions) ==
    DataFrame(players_df.columns \o <<"PredictedRankId", "PredictedRank">>,
              [i \in DOMAIN players_df.rows |->
                  players_df.rows[i] @@ [PredictedRankId |-> predictions[i],
                                         PredictedRank |-> RankLabel(predictions[i])]])

\* add_rank_predictions from model = load_model() on
Predicted(players_df, model_features, lm) ==
    Outcome(WithPredictions(players_df, Predict(lm.ret, model_features)),
            lm.MODEL, lm.loads, <<"prepare_for_model", "load_model", "predict">>)

\* add_rank_predictions from model_features = prepare_for_model(players_df) on
Featured(players_df, model_features, M, disk) ==
    IF IsRaise(model_features)
    THEN Outcome(model_features, M, 0, <<"prepare_for_model">>)
    ELSE Predicted(players_df, model_features, load_model(M, disk))

add_rank_predictions(players_df, M, disk) ==
    IF players_df = None \/ Empty(players_df) THEN Outcome(None, M, 0, <<>>)
    ELSE Featured(players_df, prepare_for_model(players_df), M, disk)

-----------------------------------------------------------------------------
(* get_player_stats_from_match, predict_all_players *)

\* get_player_stats_from_match from player_df = extract_player_stats(...) on
PlayerStats(player_df, M) ==
    LET cs == <<"get_match_data", "extract_player_stats">> IN
    IF IsRaise(player_df) THEN Outcome(player_df, M, 0, cs)
    ELSE IF Empty(player_df) THEN Outcome(None, M, 0, cs)
    ELSE Outcome(player_df, M, 0, cs)

\* get_player_stats_from_match from match_data = get_match_data(match_id) on
StatsFromMatch(match_data, username, M) ==
    IF ~Truthy(match_data) THEN Outcome(None, M, 0, <<"get_match_data">>)
    ELSE PlayerStats(extract_player_stats(match_data, username), M)

get_player_stats_from_match(response, username, M) ==
    StatsFromMatch(get_match_data(response), username, M)

\* predict_all_players after add_rank_predictions returned o
Ranked(o) ==
    Outcome(o.ret, o.MODEL, o.loads,
            <<"get_match_data", "extract_player_stats", "add_rank_predictions">>
              \o o.calls)

\* predict_all_players from all_players = extract_player_stats(match_data) on
AllPlayers(all_players, M, disk) ==
    LET cs == <<"get_match_data", "extract_player_stats">> IN
    IF IsRaise(all_players) THEN Outcome(all_players, M, 0, cs)
    ELSE IF Empty(all_players) THEN Outcome(None, M, 0, cs)
    ELSE Ranked(add_rank_predictions(all_players, M, disk))

\* predict_all_players from match_data = get_match_data(match_id) on
PredictFromMatch(match_data, M, disk) ==
    IF ~Truthy(match_data) THEN Outcome(None, M, 0, <<"get_match_data">>)
    ELSE AllPlayers(extract_player_stats(match_data, None), M, disk)

predict_all_players(response, M, disk) ==
    PredictFromMatch(get_match_data(response), M, disk)

-----------------------------------------------------------------------------
(* prepare_prediction_summary, get_match_prediction_summary *)

\* lane_map.get(int(lane_code), 'UNKNOWN')
get_lane_name(lane_code) ==
    LET lane_map == <<"BOTTOM", "SUPPORT", "NONE", "JUNGLE", "TOP", "MIDDLE">>
    IN IF lane_code \in 0..5 THEN lane_map[lane_code + 1] ELSE "UNKNOWN"

\* int(x) for round(x): the fraction cut off
Round_Truncated(f) == f.num \div f.den

\* round(x) of a non-negative float: to the nearest integer, a tie to the even one
Round(f) ==
    LET q == f.num \div f.den
        r == f.num % f.den
    IN IF 2 * r < f.den THEN q
       ELSE IF 2 * r > f.den THEN q + 1
       ELSE IF q % 2 = 0 THEN q ELSE q + 1

\* f"{gold / 1000:.1f}k": the number of tenths of a thousand shown, and the unit
GoldDisplay(gold) == [tenths |-> Round(Frac(gold, 100)), unit |-> "k"]

\* the four display columns added to summary_df
SummaryRow(row) ==
    row @@ [LaneName |-> get_lane_name(row.Lane),
            KDAString |-> <<row.kills, "/", row.deaths, "/", row.assists>>,
            CS |-> row.MinionsKilled,
            GoldDisplay |-> GoldDisplay(row.TotalGold)]

\* one row of a team table: display_cols renamed by rename_map
TeamRow(row) ==
    [Player |-> row.summonerName, Champion |-> row.championName,
     Lane |-> row.LaneName, KDA |-> row.KDAString, CS |-> row.CS,
     Gold |-> row.GoldDisplay, PredictedRank |-> row.PredictedRank]

\* summary_df[summary_df['Win'] == flag]: the rows whose Win equals flag, in order
RECURSIVE WinRows(_, _)
WinRows(rws, flag) ==
    IF rws = <<>> THEN <<>>
    ELSE IF Head(rws).Win = flag THEN <<Head(rws)>> \o WinRows(Tail(rws), flag)
    ELSE WinRows(Tail(rws), flag)

\* [display_cols].rename(columns=rename_map).reset_index(drop=True) of the kept rows
TeamTable(kept) == [i \in DOMAIN kept |-> TeamRow(kept[i])]

\* Team with the filter of the blue team used for both teams
Team_BothLosers(rws, flag) == TeamTable(WinRows(rws, 0))

Team(rws, flag) == TeamTable(WinRows(rws, flag))

\* value_counts() restricted to the labels that occur
RankCounts(rws) ==
    LET count(rank) == Cardinality({i \in DOMAIN rws : rws[i].PredictedRank = rank})
    IN [rank \in {r \in Range(RANKS) : count(r) > 0} |-> count(rank)]

RECURSIVE SumRankIds(_)
SumRankIds(rws) ==
    IF rws = <<>> THEN 0 ELSE Head(rws).PredictedRankId + SumRankIds(Tail(rws))

\* float(summary_df['PredictedRankId'].mean())
MeanRankId(rws) == Frac(SumRankIds(rws), Len(rws))

\* max(0, min(len(RANKS) - 1, round(avg_rank_id)))
RankIdForLabel(avg_rank_id) == Max(0, Min(Len(RANKS) - 1, Round(avg_rank_id)))

\* the summary dict built from summary_df and avg_rank_id
Summary(columns, summary_rows, avg_rank_id) ==
    [blue_team |-> Team(summary_rows, 0),
     red_team |-> Team(summary_rows, 1),
     rank_counts |-> RankCounts(summary_rows),
     average_rank_id |-> avg_rank_id,
     average_rank |-> RANKS[RankIdForLabel(avg_rank_id) + 1],
     players |-> DataFrame(columns \o <<"LaneName", "KDAString", "CS", "GoldDisplay">>,
                           summary_rows)]

prepare_prediction_summary(players_df) ==
    IF players_df = None \/ Empty(players_df) THEN None
    ELSE IF "PredictedRank" \notin Range(players_df.columns) THEN Raise("ValueError")
    ELSE Summary(players_df.columns,
                 [i \in DOMAIN players_df.rows |-> SummaryRow(players_df.rows[i])],
                 MeanRankId(players_df.rows))

\* get_match_prediction_summary after predict_all_players returned o
Summarised(o) ==
    LET cs == <<"predict_all_players">> \o o.calls IN
    IF IsRaise(o.ret) THEN Outcome(o.ret, o.MODEL, o.loads, cs)
    ELSE IF o.ret = None THEN Outcome(None, o.MODEL, o.loads, cs)
    ELSE Outcome(prepare_prediction_summary(o.ret), o.MODEL, o.loads,
                 cs \o <<"prepare_prediction_summary">>)

get_match_prediction_summary(response, M, disk) ==
    Summarised(predict_all_players(response, M, disk))

-----------------------------------------------------------------------------
(* Inputs: what the match API, the callers and the classifier can supply *)

Str(s) == [kind |-> "str", s |-> s]

Perks(a, b, c, d, e, f) ==
    [styles |-> << [selections |-> << [perk |-> a], [perk |-> b], [perk |-> c],
                                      [perk |-> d] >>],
                   [selections |-> << [perk |-> e], [perk |-> f] >>] >>]

\* the winner of the end-to-end scenario: 10/2/5, every optional key present
Winner ==
    [riotIdGameName |-> <<"A", "b">>, championName |-> "Ahri", championId |-> 103,
     win |-> TRUE, kills |-> 10, deaths |-> 2, assists |-> 5,
     totalMinionsKilled |-> 180, totalDamageDealtToChampions |-> 24000,
     totalDamageTaken |-> 12000, damageDealtToTurrets |-> 3000, goldEarned |-> 12340,
     item0 |-> 3157, item1 |-> 3020, item2 |-> 3089, item3 |-> 3135, item4 |-> 3165,
     item5 |-> 3363, perks |-> Perks(8112, 8126, 8138, 8135, 8226, 8237),
     summoner1Id |-> 4, summoner2Id |-> 14, championPoints |-> 52000,
     dragonKills |-> 1, baronKills |-> 1, visionScore |-> 21,
     lane |-> "MIDDLE", role |-> "SOLO"]

\* the loser of the end-to-end scenario: 1/10/1, the support aliases
Loser ==
    [riotIdGameName |-> <<"B">>, championName |-> "Lulu", championId |-> 117,
     win |-> FALSE, kills |-> 1, deaths |-> 10, assists |-> 1,
     totalMinionsKilled |-> 20, totalDamageDealtToChampions |-> 4000,
     totalDamageTaken |-> 18000, damageDealtToTurrets |-> 0, goldEarned |-> 6020,
     item0 |-> 3850, item1 |-> 3158, item2 |-> 0, item3 |-> 0, item4 |-> 0,
     item5 |-> 3364, perks |-> Perks(8214, 8226, 8210, 8237, 8345, 8347),
     summoner1Id |-> 3, summoner2Id |-> 4, championPoints |-> 800,
     dragonKills |-> 0, baronKills |-> 0, visionScore |-> 60,
     lane |-> "UTILITY", role |-> "SUPPORT"]

\* a participant without deaths, gold, damage taken or items, with a lane and a
\* role outside the tables and without the optional keys
Bare ==
    [riotIdGameName |-> <<"a">>, championName |-> "Teemo", championId |-> 17,
     win |-> FALSE, kills |-> 3, deaths |-> 0, assists |-> 4,
     totalMinionsKilled |-> 0, totalDamageDealtToChampions |-> 700,
     totalDamageTaken |-> 0, damageDealtToTurrets |-> 0, goldEarned |-> 0,
     item0 |-> 0, item1 |-> 0, item2 |-> 0, item3 |-> 0, item4 |-> 0,
     item5 |-> 0, perks |-> Perks(8005, 9111, 9104, 8014, 8304, 8345),
     summoner1Id |-> 12, summoner2Id |-> 4, visionScore |-> 0,
     lane |-> "RIVER", role |-> "FLEX"]

ParticipantPool == <<Winner, Loser, Bare>>

Participants == Range(ParticipantPool)

\* gameDuration in seconds, around the 20 and 35 minute boundaries; a fetched
\* match has a strictly positive duration
Durations == {1199, 1200, 2099, 2100}

ParticipantLists ==
    UNION {[1..n -> Participants] : n \in 0..MaxParticipants}

MatchRecord(participants, gameDuration) ==
    [metadata |-> [matchId |-> "NA1_5416214402"],
     info |-> [participants |-> participants, gameDuration |-> gameDuration,
               gameMode |-> "CLASSIC"]]

Matches == {MatchRecord(ps, d) : ps \in ParticipantLists, d \in Durations}

\* the body the match API sends with an error status
ErrorBody(code) == [status |-> [message |-> "Data not found", status_code |-> code]]

Responses ==
    {[status_code |-> 200, json |-> m] : m \in Matches}
      \cup {[status_code |-> c, json |-> ErrorBody(c)] : c \in {404, 429}}

Usernames == {None, Str(<<>>), Str(<<"a", "B">>), Str(<<"b">>), Str(<<"Z">>)}

ClassIds == 0..(Len(RANKS) - 1)

\* the decision trees the artifact may hold: one split on the Win column, the
\* sixth of the training order, with any class at either leaf
Trees ==
    {[kind |-> "model", feature |-> 6, threshold |-> 0, left |-> l, right |-> r] :
        l \in ClassIds, r \in ClassIds}

\* the trees tried: the two leaves mirrored (0 and 10, 1 and 9, ...), and the
\* stub of the end-to-end scenario, which answers 3 for every row
TreesOnDisk ==
    {t \in Trees : t.right = Len(RANKS) - 1 - t.left \/ (t.left = 3 /\ t.right = 3)}

\* the artifact a call can find on disk; it is read only while MODEL is None
Disk(M) == IF M = None THEN TreesOnDisk ELSE {M}

\* the tables extract_player_stats returns for the match records
Tables ==
    {t \in {extract_player_stats(m, u) : m \in Matches, u \in Usernames} : IsDf(t)}

\* a table whose columns were inserted in another order: the same rows
Rotate(s, k) == [i \in DOMAIN s |-> s[((i - 1 + k) % Len(s)) + 1]]

Reverse(s) == [i \in DOMAIN s |-> s[Len(s) + 1 - i]]

ColumnOrders ==
    {Rotate(stats_columns, k) : k \in 0..(Len(stats_columns) - 1)}
      \cup {Reverse(stats_columns)}

\* the strings a Lane, Role or GamePhase column can hold before encoding
LaneValues == DOMAIN LANE_ENCODING \cup {"RIVER", ""}

RoleValues == DOMAIN ROLE_ENCODING \cup {"FLEX"}

PhaseValues == DOMAIN GAME_PHASE_ENCODING \cup {"Overtime"}

\* a table with predictions built by a caller of prepare_prediction_summary:
\* the first n participants of the pool (repeated), extracted from a 30 minute
\* match, with the class indices ids; an index above the last label carries
\* the last label
HandRows(n) ==
    extract_player_stats(
        MatchRecord([i \in 1..n |-> ParticipantPool[((i - 1) % Len(ParticipantPool)) + 1]],
                    1800),
        None).rows

HandTable(rws, ids) ==
    DataFrame(stats_columns \o <<"PredictedRankId", "PredictedRank">>,
              [i \in DOMAIN ids |->
                  rws[i] @@ [PredictedRankId |-> ids[i],
                             PredictedRank |-> RankLabel(Min(ids[i], Len(RANKS) - 1))]])

\* the class indices of a hand-built table, in ascending order (the mean does
\* not depend on the order)
RankIdLists(n) ==
    {ids \in [1..n -> 0..MaxRankId] : \A i \in 1..(n - 1) : ids[i] <= ids[i + 1]}

HandTablesOf(n, rws) == {HandTable(rws, ids) : ids \in RankIdLists(n)}

HandTables == UNION {HandTablesOf(n, HandRows(n)) : n \in 1..MaxRows}

\* what a caller can hand to add_rank_predictions
PlayerTables == Tables \cup {None, DataFrame(<<>>, <<>>)}

\* what a caller can hand to prepare_prediction_summary
SummaryInputs == HandTables \cup PlayerTables

-----------------------------------------------------------------------------
(* mainapp.py: the upload path of the dashboard, lines 51-89. The script    *)
(* runs top to bottom once per interaction.                                 *)

ranks == <<"Unranked", "Iron", "Bronze", "Silver", "Gold", "Platinum",
           "Emerald", "Diamond", "Master", "Grandmaster", "Challenger">>

\* pd.read_csv(my_upload): the table of a file that is CSV text, else an error
read_csv(my_upload) ==
    IF my_upload.format = "csv" THEN my_upload.table ELSE Raise("ParserError")

\* pd.read_excel(my_upload): the table of a workbook, else an error
read_excel(my_upload) ==
    IF my_upload.format = "xlsx" THEN my_upload.table ELSE Raise("ValueError")

\* df.drop(columns=[column], axis=1): errors="raise" is the default
drop(df, column) ==
    IF column \notin Range(df.columns) THEN Raise("KeyError")
    ELSE DataFrame(SelectSeq(df.columns, LAMBDA c : c # column),
                   [i \in DOMAIN df.rows |->
                       [c \in Range(df.columns) \ {column} |-> df.rows[i][c]]])

\* the two statements of a try body written as one: a failed drop leaves
\* statsdf as it was before the read
Dropped_Chained(before, read, dropped) ==
    IF IsRaise(dropped) THEN [statsdf |-> before, raised |-> TRUE]
    ELSE [statsdf |-> dropped, raised |-> FALSE]

\* lines 56 and 60, statsdf = read being assigned by the line above: statsdf
\* after the line, and whether it raised
Dropped(before, read, dropped) ==
    IF IsRaise(dropped) THEN [statsdf |-> read, raised |-> TRUE]
    ELSE [statsdf |-> dropped, raised |-> FALSE]

\* a try body (lines 55-56, 59-60) entered with statsdf = before
TryBody(before, read) ==
    IF IsRaise(read) THEN [statsdf |-> before, raised |-> TRUE]
    ELSE Dropped(before, read, drop(read, "Unnamed: 0"))

\* lines 57-62: the handler of the first try, first being its outcome
ExceptFirst(my_upload, first) ==
    IF first.raised THEN TryBody(first.statsdf, read_excel(my_upload)).statsdf
    ELSE first.statsdf

\* lines 52-62: statsdf after the upload was read
Uploaded(my_upload) ==
    IF my_upload = None THEN None
    ELSE ExceptFirst(my_upload, TryBody(None, read_csv(my_upload)))

\* Counter(predictions).keys(): the labels in the order they first occur
Keys(predictions) ==
    LET first == SelectSeq([i \in DOMAIN predictions |-> i],
                           LAMBDA i : \A j \in 1..(i - 1) :
                                         predictions[j] # predictions[i])
    IN [k \in DOMAIN first |-> predictions[first[k]]]

Count(predictions, key) == Cardinality({i \in DOMAIN predictions : predictions[i] = key})

\* lines 77-80: the loop over keys from position i on
RECURSIVE MaxKey(_, _, _, _)
MaxKey(predictions, keys, maxkey, i) ==
    IF i > Len(keys) THEN maxkey
    ELSE MaxKey(predictions, keys,
                IF Count(predictions, maxkey) < Count(predictions, keys[i])
                THEN keys[i] ELSE maxkey,
                i + 1)

\* lines 73-89 from the class indices the classifier answered
Shown(statsdf, classes) ==
    LET predictions == [i \in DOMAIN classes |-> ranks[classes[i] + 1]]
        keys == Keys(predictions)
    IN Outcome([statsdf |-> statsdf, predictions |-> predictions,
                metric |-> MaxKey(predictions, keys, keys[1], 1)],
               MODEL, 0, <<"pickle.load", "predict">>)

\* lines 64-89 with the upload read as statsdf; predict refuses a table of no
\* rows
Dashboard(statsdf, pressed, vanilla_decision_tree) ==
    IF pressed /\ statsdf # None
    THEN IF Len(statsdf.rows) = 0
         THEN Outcome([statsdf |-> statsdf, predictions |-> Raise("ValueError"),
                       metric |-> None],
                      MODEL, 0, <<"pickle.load", "predict">>)
         ELSE Shown(statsdf, Predict(vanilla_decision_tree, statsdf))
    ELSE Outcome([statsdf |-> statsdf, predictions |-> None, metric |-> None],
                 MODEL, 0, <<"pickle.load">>)

\* the uploads tried. The files hold the model columns of a match's players,
\* or the header alone, written with or without the index column; a file is CSV
\* text, a workbook, or neither
UploadTables ==
    {prepare_for_model(t) :
        t \in {u \in {extract_player_stats(MatchRecord(ps, 1800), None) :
                         ps \in ParticipantLists} : IsDf(u)}}
    \cup {DataFrame(model_columns, <<>>)}

WithIndex(df) ==
    DataFrame(<<"Unnamed: 0">> \o df.columns,
              [i \in DOMAIN df.rows |-> df.rows[i] @@ ("Unnamed: 0" :> i - 1)])

Uploads ==
    {None, [format |-> "other", table |-> None]}
    \cup {[format |-> f, table |-> t] :
             f \in {"csv", "xlsx"},
             t \in UploadTables \cup {WithIndex(u) : u \in UploadTables}}

-----------------------------------------------------------------------------
(* The state machine: one action per public function of league_api.py *)

\* the call paths that may be inside load_model at the same time in a
\* concurrent host
Callers == {1, 2}

Init ==
    /\ MODEL = None
    /\ loads = 0
    /\ op = "idle"
    /\ args = None
    /\ result = None
    /\ calls = <<>>
    /\ pc = [t \in Callers |-> "idle"]
    /\ loaded = [t \in Callers |-> None]
    /\ returned = [t \in Callers |-> None]

\* the process is single-threaded: a call starts when no call's result is held
Idle == op = "idle"

\* the state after the call name(a) with outcome o
Called(name, a, o) ==
    /\ op' = name
    /\ args' = a
    /\ result' = o.ret
    /\ calls' = o.calls
    /\ MODEL' = o.MODEL
    /\ loads' = loads + o.loads
    /\ UNCHANGED <<pc, loaded, returned>>

\* the caller drops the result: all data but the classifier handle is
\* request-scoped
Discard ==
    /\ ~Idle
    /\ op' = "idle"
    /\ args' = None
    /\ result' = None
    /\ calls' = <<>>
    /\ UNCHANGED <<MODEL, loads, pc, loaded, returned>>

GetMatchPredictionSummary ==
    /\ Idle
    /\ \E response \in Responses : \E disk \in Disk(MODEL) :
           Called("get_match_prediction_summary", [response |-> response],
                  get_match_prediction_summary(response, MODEL, disk))

PredictAllPlayers ==
    /\ Idle
    /\ \E response \in Responses : \E disk \in Disk(MODEL) :
           Called("predict_all_players", [response |-> response],
                  predict_all_players(response, MODEL, disk))

GetPlayerStatsFromMatch ==
    /\ Idle
    /\ \E response \in Responses : \E username \in Usernames :
           Called("get_player_stats_from_match",
                  [response |-> response, username |-> username],
                  get_player_stats_from_match(response, username, MODEL))

AddRankPredictions ==
    /\ Idle
    /\ \E players_df \in PlayerTables :
       \E disk \in Disk(MODEL) :
           Called("add_rank_predictions", [players_df |-> players_df],
                  add_rank_predictions(players_df, MODEL, disk))

LoadModel ==
    /\ Idle
    /\ \E disk \in Disk(MODEL) :
           LET lm == load_model(MODEL, disk) IN
           Called("load_model", None, Outcome(lm.ret, lm.MODEL, lm.loads, <<>>))

ExtractPlayerStats ==
    /\ Idle
    /\ \E match_data \in Matches : \E username \in Usernames :
           Called("extract_player_stats",
                  [match_data |-> match_data, username |-> username],
                  Outcome(extract_player_stats(match_data, username), MODEL, 0, <<>>))

\* extract_player_stats on a one-participant match whose score line is any
\* kills / deaths / assists
ExtractScoreLine ==
    /\ Idle
    /\ \E kills \in 0..MaxScore : \E deaths \in 0..MaxScore :
       \E assists \in 0..MaxScore :
           LET participant == [Bare EXCEPT !.kills = kills, !.deaths = deaths,
                                           !.assists = assists]
               match_data == MatchRecord(<<participant>>, 1800)
           IN Called("extract_player_stats",
                     [match_data |-> match_data, username |-> None],
                     Outcome(extract_player_stats(match_data, None), MODEL, 0, <<>>))

\* lines 145-151 of extract_player_stats on a one-row table whose categorical
\* columns hold any of the strings
EncodeCategoricals ==
    /\ Idle
    /\ \E lane \in LaneValues : \E role \in RoleValues : \E phase \in PhaseValues :
           LET row == [Stats(Winner, 1200) EXCEPT !.Lane = lane, !.Role = role,
                                                  !.GamePhase = phase]
           IN Called("encode", [Lane |-> lane, Role |-> role, GamePhase |-> phase],
                     Outcome(EncodeFrame(FrameOf(<<row>>)), MODEL, 0, <<>>))

PrepareForModel ==
    /\ Idle
    /\ \E t \in Tables : \E order \in ColumnOrders :
           LET df == DataFrame(order, t.rows) IN
           Called("prepare_for_model", [df |-> df],
                  Outcome(prepare_for_model(df), MODEL, 0, <<>>))

PreparePredictionSummary ==
    /\ Idle
    /\ \E players_df \in SummaryInputs :
           Called("prepare_prediction_summary", [players_df |-> players_df],
                  Outcome(prepare_prediction_summary(players_df), MODEL, 0, <<>>))

\* the process: the match pipeline and the classifier handle
Next ==
    \/ GetMatchPredictionSummary
    \/ PredictAllPlayers
    \/ GetPlayerStatsFromMatch
    \/ AddRankPredictions
    \/ LoadModel
    \/ Discard

Spec == Init /\ [][Next]_vars

\* the functions that neither fetch nor touch the classifier handle, each
\* applied to the inputs above
NextPure ==
    \/ ExtractPlayerStats
    \/ ExtractScoreLine
    \/ EncodeCategoricals
    \/ PrepareForModel
    \/ PreparePredictionSummary
    \/ Discard

SpecPure == Init /\ [][NextPure]_vars

\* one run of the dashboard script with a file in the uploader or none, the
\* button pressed or not
RunDashboard ==
    /\ Idle
    /\ \E my_upload \in Uploads : \E pressed \in BOOLEAN :
       \E vanilla_decision_tree \in TreesOnDisk :
           Called("mainapp",
                  [my_upload |-> my_upload, pressed |-> pressed,
                   vanilla_decision_tree |-> vanilla_decision_tree],
                  Dashboard(Uploaded(my_upload), pressed, vanilla_decision_tree))

NextApp == RunDashboard \/ Discard

SpecApp == Init /\ [][NextApp]_vars

-----------------------------------------------------------------------------
(* load_model entered by two call paths of a concurrent host: a switch may  *)
(* fall between the test of line 21, the read of the artifact and the store *)
(* into the global of line 22, and the read of the global of line 23        *)

\* models/vanilla_tree.sav is one file: a read gives what an earlier read gave
Artifact ==
    LET read == ({loaded[t] : t \in Callers} \cup {MODEL}) \ {None}
    IN IF read = {} THEN TreesOnDisk ELSE read

\* line 21 with the global read as M, without the test
AfterTest_NoTest(M) == "load"

\* line 21: where the caller goes from the test of the global read as M
AfterTest(M) == IF M = None THEN "load" ELSE "return"

\* the caller enters load_model
Enter(t) ==
    /\ pc[t] \in {"idle", "done"}
    /\ pc' = [pc EXCEPT ![t] = "test"]
    /\ returned' = [returned EXCEPT ![t] = None]
    /\ UNCHANGED <<MODEL, loads, loaded, op, args, result, calls>>

\* if MODEL is None:
Test(t) ==
    /\ pc[t] = "test"
    /\ pc' = [pc EXCEPT ![t] = AfterTest(MODEL)]
    /\ UNCHANGED <<MODEL, loads, loaded, returned, op, args, result, calls>>

\* pickle.load(open("models/vanilla_tree.sav", "rb")), its value not yet stored
Load(t) ==
    /\ pc[t] = "load"
    /\ \E disk \in Artifact : loaded' = [loaded EXCEPT ![t] = disk]
    /\ loads' = loads + 1
    /\ pc' = [pc EXCEPT ![t] = "store"]
    /\ UNCHANGED <<MODEL, returned, op, args, result, calls>>

\* MODEL = <the loaded object>
Store(t) ==
    /\ pc[t] = "store"
    /\ MODEL' = loaded[t]
    /\ loaded' = [loaded EXCEPT ![t] = None]
    /\ pc' = [pc EXCEPT ![t] = "return"]
    /\ UNCHANGED <<loads, returned, op, args, result, calls>>

\* return MODEL
Return(t) ==
    /\ pc[t] = "return"
    /\ returned' = [returned EXCEPT ![t] = MODEL]
    /\ pc' = [pc EXCEPT ![t] = "done"]
    /\ UNCHANGED <<MODEL, loads, loaded, op, args, result, calls>>

NextRace ==
    \E t \in Callers : Enter(t) \/ Test(t) \/ Load(t) \/ Store(t) \/ Return(t)

SpecRace == Init /\ [][NextRace]_vars

-----------------------------------------------------------------------------
(* Claims *)

\* the participant list of the match record a response carries
ParticipantsOf(response) == response.json.info.participants

\* C1: when the match API answers with a status other than 200, get_match_data
\* returns None, and predict_all_players and get_player_stats_from_match return
\* None without invoking extract_player_stats or the classifier.
C1_FailedFetchIsNoData ==
    (/\ op \in {"predict_all_players", "get_player_stats_from_match"}
     /\ args.response.status_code # 200)
    => /\ result = None
       /\ calls = <<"get_match_data">>
       /\ get_match_data(args.response) = None

C1_Witness ==
    /\ op = "predict_all_players"
    /\ args.response.status_code = 404
    /\ result = None
    /\ "extract_player_stats" \notin Range(calls)

\* C2: for a filter name that equals no participant's display name
\* (case-insensitively), get_player_stats_from_match reports 'not found' by
\* returning None, without an exception.
C2_UnknownNameIsNotFound ==
    (/\ op = "get_player_stats_from_match"
     /\ args.response.status_code = 200
     /\ args.username # None
     /\ args.username.s # <<>>
     /\ \A i \in DOMAIN ParticipantsOf(args.response) :
            Lower(ParticipantsOf(args.response)[i].riotIdGameName)
              # Lower(args.username.s))
    => result = None

\* C3: for every fetch outcome and every participant list of the fetched
\* record, the empty one included, get_match_prediction_summary returns None or
\* a summary and never raises.
C3_SummaryNeverRaises ==
    op = "get_match_prediction_summary" => ~IsRaise(result)

\* the label of a class index, as the specification lists them
LabelAt(id) ==
    CASE id = 0 -> "Unranked" [] id = 1 -> "Iron" [] id = 2 -> "Bronze"
      [] id = 3 -> "Silver" [] id = 4 -> "Gold" [] id = 5 -> "Platinum"
      [] id = 6 -> "Emerald" [] id = 7 -> "Diamond" [] id = 8 -> "Master"
      [] id = 9 -> "Grandmaster" [] id = 10 -> "Challenger"

\* C7: add_rank_predictions yields one prediction per input row, in input row
\* order (each row gets the class the tree answers for that row), labelled by the
\* label at position PredictedRankId of the 11 labels; for the 2-participant match
\* of a winner and a loser and a classifier answering 3 for both rows, both are
\* labelled Silver, the winner is in one team and the loser in the other.
C7_OnePredictionPerRow ==
    /\ (/\ op = "add_rank_predictions"
        /\ IsDf(args.players_df)
        /\ ~Empty(args.players_df))
       => /\ IsDf(result)
          /\ Len(result.rows) = Len(args.players_df.rows)
          /\ \A i \in DOMAIN result.rows :
                /\ result.rows[i].summonerName = args.players_df.rows[i].summonerName
                /\ result.rows[i].kills = args.players_df.rows[i].kills
                /\ result.rows[i].PredictedRankId
                     = (IF args.players_df.rows[i].Win = 1 THEN MODEL.right
                        ELSE MODEL.left)
                /\ result.rows[i].PredictedRankId \in 0..10
                /\ result.rows[i].PredictedRank = LabelAt(result.rows[i].PredictedRankId)
    /\ (/\ op = "get_match_prediction_summary"
        /\ args.response.status_code = 200
        /\ ParticipantsOf(args.response) = <<Winner, Loser>>
        /\ MODEL # None
        /\ MODEL.left = 3
        /\ MODEL.right = 3)
       => /\ "players" \in DOMAIN result
          /\ Len(result.players.rows) = 2
          /\ \A i \in 1..2 : /\ result.players.rows[i].PredictedRankId = 3
                             /\ result.players.rows[i].PredictedRank = "Silver"
          /\ Len(result.red_team) = 1
          /\ result.red_team[1].Player = Winner.riotIdGameName
          /\ result.red_team[1].PredictedRank = "Silver"
          /\ Len(result.blue_team) = 1
          /\ result.blue_team[1].Player = Loser.riotIdGameName
          /\ result.blue_team[1].PredictedRank = "Silver"

C7_Witness ==
    /\ op = "get_match_prediction_summary"
    /\ args.response.status_code = 200
    /\ ParticipantsOf(args.response) = <<Winner, Loser>>
    /\ MODEL # None
    /\ MODEL.left = 3
    /\ MODEL.right = 3
    /\ "red_team" \in DOMAIN result
    /\ result.red_team[1].PredictedRank = "Silver"
    /\ result.blue_team[1].PredictedRank = "Silver"

\* the k-th smallest member of a set of positions
NthOf(S, k) == CHOOSE i \in S : Cardinality({j \in S : j <= i}) = k

\* C9: the team tables partition the players by the Win flag: blue_team holds
\* exactly the players who lost and red_team exactly those who won, each player
\* once and in the order of the input.
C9_TeamsPartitionByWin ==
    (op = "get_match_prediction_summary" /\ "blue_team" \in DOMAIN result)
    => LET ps == ParticipantsOf(args.response)
           lost == {i \in DOMAIN ps : ~ps[i].win}
           won == {i \in DOMAIN ps : ps[i].win}
       IN /\ Len(result.blue_team) = Cardinality(lost)
          /\ Len(result.red_team) = Cardinality(won)
          /\ \A k \in DOMAIN result.blue_team :
                /\ result.blue_team[k].Player = ps[NthOf(lost, k)].riotIdGameName
                /\ result.blue_team[k].Champion = ps[NthOf(lost, k)].championName
          /\ \A k \in DOMAIN result.red_team :
                /\ result.red_team[k].Player = ps[NthOf(won, k)].riotIdGameName
                /\ result.red_team[k].Champion = ps[NthOf(won, k)].championName
          /\ \A i \in DOMAIN result.players.rows :
                result.players.rows[i].Win = (IF ps[i].win THEN 1 ELSE 0)

C9_Witness ==
    /\ op = "get_match_prediction_summary"
    /\ args.response.status_code = 200
    /\ ParticipantsOf(args.response) = <<Loser, Winner, Bare>>
    /\ "blue_team" \in DOMAIN result
    /\ Len(result.blue_team) = 2
    /\ result.blue_team[2].Player = Bare.riotIdGameName
    /\ Len(result.red_team) = 1

\* the columns whose values are floats
FloatColumns ==
    {"KDA", "GameDurationMin", "GoldPerMin", "CSPerMin", "DmgPerMin", "VisionPerMin",
     "DmgPerGold", "DmgEfficiency"}

\* the value of column c of a row is present: a float with a denominator, or a
\* number that is not the missing value
NonNull(row, c) ==
    /\ c \in DOMAIN row
    /\ IF c \in FloatColumns THEN row[c].den > 0 /\ row[c].num >= 0
       ELSE row[c] >= 0

\* C4: without a filter name, on a match record with n >= 1 participants,
\* extract_player_stats produces exactly n rows, one per participant in the
\* participants' order, each carrying all 45 model fields with a non-null value.
C4_OneRowPerParticipant ==
    (/\ op = "extract_player_stats"
     /\ args.username = None
     /\ Len(args.match_data.info.participants) >= 1)
    => LET ps == args.match_data.info.participants IN
       /\ IsDf(result)
       /\ Len(result.rows) = Len(ps)
       /\ Cardinality(Range(model_columns)) = 45
       /\ \A i \in DOMAIN ps :
             /\ result.rows[i].summonerName = ps[i].riotIdGameName
             /\ result.rows[i].championName = ps[i].championName
             /\ result.rows[i].kills = ps[i].kills
             /\ result.rows[i].ChampionId = ps[i].championId
             /\ \A c \in Range(model_columns) :
                   c \in Range(result.columns) /\ NonNull(result.rows[i], c)

C4_Witness ==
    /\ op = "extract_player_stats"
    /\ args.username = None
    /\ args.match_data.info.participants = <<Bare, Winner, Loser>>
    /\ IsDf(result)
    /\ Len(result.rows) = 3
    /\ result.rows[1].summonerName = Bare.riotIdGameName
    /\ result.rows[1].Lane = 5

\* C5: for every table holding the 45 model fields (and the descriptive
\* fields), whatever the order of its columns, prepare_for_model returns exactly
\* the 45 columns MinionsKilled ... GamePhase in the one fixed order, none
\* omitted, duplicated or permuted, with the rows in the same order and values.
C5_FixedColumnOrder ==
    (/\ op = "prepare_for_model"
     /\ Range(model_columns) \subseteq Range(args.df.columns))
    => /\ IsDf(result)
       /\ Len(result.columns) = 45
       /\ result.columns[1] = "MinionsKilled"
       /\ result.columns[6] = "Win"
       /\ result.columns[43] = "Lane"
       /\ result.columns[45] = "GamePhase"
       /\ result.columns = model_columns
       /\ Cardinality(Range(result.columns)) = 45
       /\ "summonerName" \notin Range(result.columns)
       /\ "championName" \notin Range(result.columns)
       /\ Len(result.rows) = Len(args.df.rows)
       /\ \A i \in DOMAIN result.rows :
             /\ DOMAIN result.rows[i] = Range(result.columns)
             /\ \A c \in Range(result.columns) : result.rows[i][c] = args.df.rows[i][c]

C5_Witness ==
    /\ op = "prepare_for_model"
    /\ args.df.columns[1] = "championName"
    /\ args.df.columns[47] = "MinionsKilled"
    /\ Len(args.df.rows) = 2
    /\ IsDf(result)
    /\ result.columns[1] = "MinionsKilled"

\* the codes of the specification's tables, with their defaults
LaneCode(v) ==
    CASE v = "BOTTOM" -> 0 [] v = "SUPPORT" -> 1 [] v = "NONE" -> 2 [] v = "JUNGLE" -> 3
      [] v = "TOP" -> 4 [] v = "MIDDLE" -> 5 [] v = "UTILITY" -> 1 [] OTHER -> 5

RoleCode(v) ==
    CASE v = "SUPPORT" -> 0 [] v = "ADC" -> 1 [] v = "NONE" -> 2 [] v = "JUNGLE" -> 3
      [] v = "TOP" -> 4 [] v = "MIDDLE" -> 5 [] v = "SOLO" -> 4 [] v = "DUO" -> 1
      [] v = "CARRY" -> 1 [] OTHER -> 1

PhaseCode(v) ==
    CASE v = "Mid" -> 0 [] v = "Late" -> 1 [] v = "Early" -> 2 [] OTHER -> 0

\* C6: the categorical encoding equals a lookup in the fixed tables with a
\* default (Lane 5, Role 1, GamePhase 0), for the strings of the tables and for
\* any other string, without failing; UTILITY encodes like SUPPORT (1) and SOLO
\* like TOP (4).
C6_EncodingTables ==
    /\ op = "encode"
       => /\ IsDf(result)
          /\ result.rows[1].Lane = LaneCode(args.Lane)
          /\ result.rows[1].Role = RoleCode(args.Role)
          /\ result.rows[1].GamePhase = PhaseCode(args.GamePhase)
          /\ args.Lane \in {"UTILITY", "SUPPORT"} => result.rows[1].Lane = 1
          /\ args.Role \in {"SOLO", "TOP"} => result.rows[1].Role = 4
    /\ (op = "extract_player_stats" /\ IsDf(result) /\ args.username = None)
       => \A i \in DOMAIN result.rows :
             /\ result.rows[i].Lane = LaneCode(args.match_data.info.participants[i].lane)
             /\ result.rows[i].Role = RoleCode(args.match_data.info.participants[i].role)

C6_Witness ==
    /\ op = "encode"
    /\ args.Lane = "RIVER"
    /\ args.Role = "FLEX"
    /\ args.GamePhase = "Overtime"
    /\ IsDf(result)
    /\ result.rows[1].Lane = 5
    /\ result.rows[1].Role = 1
    /\ result.rows[1].GamePhase = 0

\* the class indices of a table with predictions, and their sum
RankIdsOf(df) == [i \in DOMAIN df.rows |-> df.rows[i].PredictedRankId]

RECURSIVE SumOf(_)
SumOf(ids) == IF ids = <<>> THEN 0 ELSE Head(ids) + SumOf(Tail(ids))

Abs(x) == IF x < 0 THEN -x ELSE x

\* the position in the label list (from 0) of a label
IndexOfLabel(label) == CHOOSE i \in 0..10 : LabelAt(i) = label

\* C8: the average rank label is the label at i, the mean of the class indices
\* rounded to the nearest integer and clamped to 0..10: for indices in 0..10, i
\* lies in 0..10 and differs from the exact mean by at most 1/2 (indices 0, 1, 10
\* give 4, Gold), and a mean above 10 gives 10.
C8_AverageRankLabel ==
    (/\ op = "prepare_prediction_summary"
     /\ IsDf(args.players_df)
     /\ "PredictedRankId" \in Range(args.players_df.columns))
    => LET ids == RankIdsOf(args.players_df)
           n == Len(ids)
           total == SumOf(ids)
           i == IndexOfLabel(result.average_rank)
       IN /\ result.average_rank \in {LabelAt(k) : k \in 0..10}
          /\ result.average_rank_id.num * n = total * result.average_rank_id.den
          /\ \E r \in 0..(MaxRankId + 1) :
                /\ 2 * Abs(r * n - total) <= n
                /\ i = (IF r > 10 THEN 10 ELSE r)
          /\ (\A k \in DOMAIN ids : ids[k] <= 10) => 2 * Abs(i * n - total) <= n
          /\ total > 10 * n => i = 10
          /\ ids = <<0, 1, 10>> => result.average_rank = "Gold"

C8_Witness ==
    /\ op = "prepare_prediction_summary"
    /\ IsDf(args.players_df)
    /\ "PredictedRankId" \in Range(args.players_df.columns)
    /\ RankIdsOf(args.players_df) = <<0, 1, 10>>
    /\ result.average_rank = "Gold"
    /\ result.average_rank_id = [num |-> 11, den |-> 3]

\* C10: the game phase is decided by the duration with half-open boundaries:
\* below 1200 s Early, from 1200 s up to but excluding 2100 s Mid, 2100 s or more
\* Late; every row of one extraction gets the same phase (coded Early 2, Mid 0,
\* Late 1).
C10_GamePhaseBoundaries ==
    (op = "extract_player_stats" /\ IsDf(result))
    => LET d == args.match_data.info.gameDuration
           phase == IF d < 1200 THEN "Early" ELSE IF d < 2100 THEN "Mid" ELSE "Late"
       IN /\ GamePhase(Frac(d, 60)) = phase
          /\ \A i \in DOMAIN result.rows :
                /\ result.rows[i].GamePhase = PhaseCode(phase)
                /\ result.rows[i].GamePhase = result.rows[1].GamePhase
                /\ result.rows[i].GameDuration = d

C10_Witness ==
    /\ op = "extract_player_stats"
    /\ IsDf(result)
    /\ args.match_data.info.gameDuration = 1200
    /\ Len(result.rows) = 2
    /\ result.rows[1].GamePhase = 0
    /\ result.rows[2].GamePhase = 0

\* C11: every row's KDA is (kills + assists) / max(deaths, 1): a participant
\* with 0 deaths gets kills + assists exactly, the value 1 death gives, and the
\* divisor is never zero.
C11_KdaFloorsDeathsAtOne ==
    (op = "extract_player_stats" /\ IsDf(result) /\ args.username = None)
    => \A i \in DOMAIN result.rows :
          LET p == args.match_data.info.participants[i]
              kda == result.rows[i].KDA
              divisor == IF p.deaths > 1 THEN p.deaths ELSE 1
          IN /\ kda.den > 0
             /\ kda.num * divisor = (p.kills + p.assists) * kda.den
             /\ p.deaths \in {0, 1}
                    => kda = [num |-> p.kills + p.assists, den |-> 1]
             /\ p.deaths = 0 => kda = KDA([p EXCEPT !.deaths = 1])

C11_Witness ==
    /\ op = "extract_player_stats"
    /\ IsDf(result)
    /\ args.username = None
    /\ Len(result.rows) = 1
    /\ args.match_data.info.participants[1].deaths = 0
    /\ args.match_data.info.participants[1].kills = 2
    /\ args.match_data.info.participants[1].assists = 3
    /\ result.rows[1].KDA = [num |-> 5, den |-> 1]

\* one step of the process, seen from the classifier handle: a non-null handle
\* stays what it is, the artifact is read exactly when the handle goes from null
\* to non-null, a call that needs the classifier leaves the handle non-null, and
\* load_model returns the global handle
C12_Step ==
    /\ MODEL # None => MODEL' = MODEL
    /\ loads' = (IF MODEL = None /\ MODEL' # None THEN loads + 1 ELSE loads)
    /\ (op' = "load_model" \/ \E i \in DOMAIN calls' : calls'[i] = "load_model")
           => MODEL' # None
    /\ op' = "load_model" => result' = MODEL'

\* C12: in the single-threaded process, over any sequence of calls, the
\* artifact is read from disk exactly once, on the first call that needs the
\* classifier; every later call gets that same handle; the global handle, once
\* non-null, is never reset to null or replaced.
C12_LoadedOnce ==
    /\ [](loads <= 1 /\ (MODEL = None <=> loads = 0))
    /\ [][C12_Step]_vars

C12_Witness ==
    /\ op = "add_rank_predictions"
    /\ IsDf(result)
    /\ \E i \in DOMAIN calls : calls[i] = "load_model"
    /\ MODEL # None
    /\ loads = 1

\* C13 as stated: when two callers race on the first access of load_model, the
\* artifact is loaded at most twice, both callers return a non-null handle, and
\* once MODEL is non-null no step assigns it again.
C13_NeverAssignedAgain ==
    /\ [](loads <= 2 /\ \A t \in Callers : pc[t] = "done" => returned[t] # None)
    /\ [][MODEL # None => \A t \in Callers : ~Store(t)]_vars

\* C13, amended: when two callers race on the first access of load_model, the
\* artifact is loaded at most twice and both callers return a non-null handle
\* holding the artifact; the global handle is assigned once per load, so the
\* caller that lost the race assigns it again while it is non-null, with its own
\* equal copy: the handle is never reset to null and its content never changes.
C13_RaceLoadsTwiceAtMost ==
    /\ [](/\ loads <= 2
          /\ \A t \in Callers :
                pc[t] = "done" => returned[t] # None /\ returned[t] \in Artifact)
    /\ [][/\ MODEL # None => MODEL' = MODEL
          /\ MODEL' # MODEL => \E t \in Callers : Store(t)
          /\ loads' # loads => \E t \in Callers : Load(t)]_vars

\* both callers passed the test before either stored: two loads, two stores
C13_Witness ==
    /\ loads = 2
    /\ MODEL # None
    /\ \A t \in Callers : pc[t] = "done" /\ returned[t] = MODEL

\* the table without its leading column
WithoutFirstColumn(df) ==
    DataFrame(Tail(df.columns),
              [i \in DOMAIN df.rows |->
                  [c \in Range(Tail(df.columns)) |-> df.rows[i][c]]])

\* C14: on the upload path, an upload that parses as CSV or, failing that, as a
\* spreadsheet gives the classifier its table without the leading "Unnamed: 0"
\* column if it has one and unchanged if it has none; an upload unreadable both
\* ways gives no data, and pressing the button then never invokes the
\* classifier.
C14_UploadedTable ==
    op = "mainapp"
    => LET my_upload == args.my_upload
           parses == my_upload # None /\ my_upload.format \in {"csv", "xlsx"}
           invoked == \E i \in DOMAIN calls : calls[i] = "predict"
       IN /\ parses
               => /\ result.statsdf
                       = (IF my_upload.table.columns[1] = "Unnamed: 0"
                          THEN WithoutFirstColumn(my_upload.table)
                          ELSE my_upload.table)
                  /\ result.statsdf.columns = model_columns
                  /\ invoked <=> args.pressed
                  /\ (args.pressed /\ Len(result.statsdf.rows) > 0)
                        => /\ Len(result.predictions) = Len(result.statsdf.rows)
                           /\ \A i \in DOMAIN result.predictions :
                                 result.predictions[i]
                                   = LabelAt(IF result.statsdf.rows[i].Win = 1
                                             THEN args.vanilla_decision_tree.right
                                             ELSE args.vanilla_decision_tree.left)
          /\ ~parses => result.statsdf = None /\ ~invoked /\ result.predictions = None

\* a CSV without the index column, the button pressed: the table is submitted
C14_Witness ==
    /\ op = "mainapp"
    /\ args.pressed
    /\ args.my_upload # None
    /\ args.my_upload.format = "csv"
    /\ args.my_upload.table.columns = model_columns
    /\ Len(args.my_upload.table.rows) = 2
    /\ result.statsdf = args.my_upload.table
    /\ Len(result.predictions) = 2
    /\ \E i \in DOMAIN calls : calls[i] = "predict"

====
